---- MODULE Spec2Model ----
(***************************************************************************)
(* Booking and payment core of the cinema ticketing backend.               *)
(*                                                                         *)
(* The store holds the tables bookings, booking_seats and payments.  Each  *)
(* request runs in its own goroutine; a request is a sequence of separate  *)
(* store statements (no transaction), so the statements of concurrent      *)
(* requests interleave.  One action below is one store statement together  *)
(* with the request-local code around it.  Reads of the read-only catalog  *)
(* (schedules, seats, halls, payment methods) are folded into the step of  *)
(* the neighbouring statement.                                             *)
(* The column is_available of the seats table is state of the store as    *)
(* well: isAvailable maps each seat to its stored flag.                     *)
(***************************************************************************)
EXTENDS Integers, Sequences, FiniteSets, TLC

VARIABLES bookings, bookingSeats, payments, nextId,
          pc, loc, last, failures, outcome, isAvailable,
          otps, users, sessions

vars == <<bookings, bookingSeats, payments, nextId,
          pc, loc, last, failures, outcome, isAvailable,
          otps, users, sessions>>

(* the tables of the booking core and the tables of the accounts *)
bookingVars == <<bookings, bookingSeats, payments, nextId, isAvailable>>
authVars == <<otps, users, sessions>>

(* ------------------------------ bounds --------------------------------- *)

NumProcs == 2
NumRacers == 3
MaxPayments == 2
MaxBookings == 2
MaxFailures == 2

Procs == 1..NumProcs

(* --------------------- read-only catalog and inputs --------------------- *)

Users == {"u1", "u2"}
Bookers == {"u1"}

Schedules ==
    [s \in {"s1", "s2"} |->
        IF s = "s1" THEN [hall_id |-> "h1", price |-> 50000,
                          show_date |-> 48, show_time |-> 20]
                    ELSE [hall_id |-> "h1", price |-> 100000,
                          show_date |-> 0, show_time |-> 20]]

Seats ==
    [x \in {"A1", "A2", "B1"} |->
        IF x = "B1" THEN [hall_id |-> "h2", seat_number |-> "B1"]
                    ELSE [hall_id |-> "h1", seat_number |-> x]]

PaymentMethods ==
    [m \in {"m1", "m2"} |->
        IF m = "m1" THEN [name |-> "card", is_active |-> TRUE]
                    ELSE [name |-> "voucher", is_active |-> FALSE]]

ScheduleRefs == DOMAIN Schedules \cup {"s9"}
SeatRefs == DOMAIN Seats \cup {"z9"}
MethodRefs == DOMAIN PaymentMethods \cup {"m9"}
BookingRefs == 1..MaxBookings
Clock == {24, 25}
Amounts == {999, 50000, 100000, 200000}

SeatLists == {<<>>, <<"A1">>, <<"A2", "A1">>, <<"A1", "A1">>,
              <<"A1", "z9">>, <<"A2", "B1">>, <<"z9", "A1">>, <<"B1", "A1">>}

GraceHours == 24
MinAmount == 1000

(* the accounts after the registration of user u1: the user is stored with *)
(* an unverified email and one verification code was sent                  *)
UsersAfterRegister ==
    [e \in {"e1"} |-> [user_id |-> "u1", password |-> "secret", is_active |-> TRUE,
                       email_verified |-> FALSE]]

OtpsAfterRegister ==
    <<[email |-> "e1", otp_code |-> <<1, 1, 1, 1, 1, 1>>,
       expires_at |-> 25, is_used |-> FALSE]>>

(* ------------------------------ entities -------------------------------- *)

BookingStatusPending == "pending"
BookingStatusConfirmed == "confirmed"
BookingStatusCancelled == "cancelled"
BookingStatusExpired == "expired"
PaymentStatusCompleted == "completed"

ActiveStatuses == {BookingStatusConfirmed, BookingStatusPending}

NoBooking == [user_id |-> "", schedule_id |-> "", total_seats |-> 0,
              total_price |-> 0, status |-> "none"]

(* request-local variables of a call in progress *)
NoLoc == [user |-> "", sched |-> "", seats |-> <<>>, bid |-> 0, i |-> 0,
          method |-> "", amount |-> 0, snap |-> NoBooking, err |-> <<>>,
          booked |-> {}, email |-> "", otp |-> 0, code |-> <<>>, now |-> 0]

(* the call that returned in the latest step: its request, what it read    *)
(* from the bookings table (seen) and the kind of its response             *)
NoCall == [op |-> "none", kind |-> "none", user |-> "", sched |-> "",
           seats |-> <<>>, bid |-> 0, method |-> "", amount |-> 0,
           seen |-> NoBooking, now |-> 0, date |-> 0, time |-> 0,
           report |-> <<>>, email |-> "", code |-> <<>>, route |-> "",
           header |-> <<>>]

(* --------------------------- error messages ----------------------------- *)
(* A message is the sequence of its text fragments; the fragments the      *)
(* handler searches for are kept as fragments of their own.                *)

DbError == "db error"

ErrScheduleNotFound(s) == <<"schedule", s, "not found">>
ErrPastSchedule == <<"cannot", "book for past schedule">>
ErrCheckAvailability == <<"check seat availability:", DbError>>
ErrSeatNotFound(x) == <<"seat", x, "not found">>
ErrSeatNotInHall(x) == <<"seat", x, "not in schedule hall">>
ErrSeatBooked(x) == <<"seat", x, "is", "already booked">>
ErrHallNotFound == <<"hall", "not found", "for schedule">>
ErrCreateBooking == <<"create booking:", DbError>>
ErrCreateSeats == <<"create booking seats:", DbError>>
ErrBookingNotFound(b) == <<"booking", ToString(b), "not found">>
ErrUnauthorized == <<"unauthorized", "to process payment for this booking">>
ErrStatusPayment(st) == <<"booking status is", st, ",", "cannot", "process payment">>
ErrAmount(a, t) == <<"payment amount", ToString(a), "does not match booking total", ToString(t)>>
ErrMethodNotFound(m) == <<"payment method", m, "not found">>
ErrMethodInactive(name) == <<"payment method", name, "is not active">>
ErrCreatePayment == <<"create payment:", DbError>>
ErrStatusCancel(st) == <<"booking status is", st, ",", "cannot", "cancel">>
ErrCancel(b, inner) == <<"cancel booking", ToString(b), ":">> \o inner
ErrUpdateStatus(b) == <<"update booking", ToString(b), "status to", BookingStatusCancelled, ":", DbError>>

Contains(errMsg, marker) == \E k \in 1..Len(errMsg) : errMsg[k] = marker

(* BookingHandler.handleServiceError: the first matching case decides *)
handleServiceError(errMsg) ==
    IF Contains(errMsg, "not found") THEN "NotFound"
    ELSE IF Contains(errMsg, "validation failed") THEN "Validation"
    ELSE IF Contains(errMsg, "invalid") THEN "Validation"
    ELSE IF Contains(errMsg, "already booked") THEN "Conflict"
    ELSE IF Contains(errMsg, "unauthorized") THEN "Unauthorized"
    ELSE IF Contains(errMsg, "cannot") THEN "InvalidState"
    ELSE "Internal"

(* a new request is served by a free goroutine; free goroutines are       *)
(* interchangeable, so the lowest free one takes it                        *)
Free(p) ==
    /\ pc[p] = "idle"
    /\ \A q \in Procs : q < p => pc[q] # "idle"

(* a request is taken up once the event of the latest step was observed *)
Ready(p) == Free(p) /\ last = NoCall

KindOf(err) == IF err = <<>> THEN "OK" ELSE handleServiceError(err)

(* ------------------------------- store ---------------------------------- *)

(* the query without its status condition *)
FindBookedSeatsAnyStatus(scheduleID) ==
    {r.seat_id : r \in {q \in bookingSeats :
        /\ q.booking_id \in DOMAIN bookings
        /\ bookings[q.booking_id].schedule_id = scheduleID}}

(* bookingSeatRepository.FindBookedSeatsBySchedule *)
FindBookedSeatsBySchedule(scheduleID) ==
    {r.seat_id : r \in {q \in bookingSeats :
        /\ q.booking_id \in DOMAIN bookings
        /\ bookings[q.booking_id].schedule_id = scheduleID
        /\ bookings[q.booking_id].status \in ActiveStatuses}}

(* a store statement may fail; MaxFailures bounds the failures of a run *)
Faults == IF failures < MaxFailures THEN {FALSE, TRUE} ELSE {FALSE}

Hit(fault) == failures' = failures + (IF fault THEN 1 ELSE 0)

(* the handler writes the response and the request ends; a test that     *)
(* started a batch of calls collects their results in outcome             *)
Return(p, call) ==
    /\ last' = call
    /\ pc' = [pc EXCEPT ![p] = "idle"]
    /\ loc' = [loc EXCEPT ![p] = NoLoc]
    /\ outcome' = IF \E k \in DOMAIN outcome : outcome[k] = "none"
                     THEN [outcome EXCEPT
                             ![CHOOSE k \in DOMAIN outcome :
                                 /\ outcome[k] = "none"
                                 /\ \A j \in 1..(k - 1) : outcome[j] # "none"]
                               = call.kind]
                     ELSE outcome

(* ---------------------------- CreateBooking ----------------------------- *)

(* the read statements of CreateBooking that may fail *)
CreateFaults(seatIDs) ==
    IF failures < MaxFailures
       THEN {<<"none", 0>>, <<"schedule", 0>>, <<"booked", 0>>, <<"hall", 0>>}
            \cup {<<"seat", k>> : k \in 1..Len(seatIDs)}
       ELSE {<<"none", 0>>}

(* the seat loop without the check of the hall *)
RECURSIVE CheckSeatsAnyHall(_, _, _, _, _)
CheckSeatsAnyHall(seatIDs, k, hallID, bookedSeats, faultAt) ==
    IF k > Len(seatIDs) THEN <<>>
    ELSE IF seatIDs[k] \notin DOMAIN Seats \/ faultAt = k
            THEN ErrSeatNotFound(seatIDs[k])
    ELSE IF seatIDs[k] \in bookedSeats
            THEN ErrSeatBooked(seatIDs[k])
    ELSE CheckSeatsAnyHall(seatIDs, k + 1, hallID, bookedSeats, faultAt)

(* a seat loop that also rejects a seat whose stored flag is_available is  *)
(* false                                                                   *)
RECURSIVE CheckSeatsAvailableOnly(_, _, _, _, _)
CheckSeatsAvailableOnly(seatIDs, k, hallID, bookedSeats, faultAt) ==
    IF k > Len(seatIDs) THEN <<>>
    ELSE IF seatIDs[k] \notin DOMAIN Seats \/ faultAt = k
            THEN ErrSeatNotFound(seatIDs[k])
    ELSE IF Seats[seatIDs[k]].hall_id # hallID
            THEN ErrSeatNotInHall(seatIDs[k])
    ELSE IF seatIDs[k] \in bookedSeats \/ ~isAvailable[seatIDs[k]]
            THEN ErrSeatBooked(seatIDs[k])
    ELSE CheckSeatsAvailableOnly(seatIDs, k + 1, hallID, bookedSeats, faultAt)

(* the loop "Check each seat" of CreateBooking; <<>> when every seat passes *)
RECURSIVE CheckSeats(_, _, _, _, _)
CheckSeats(seatIDs, k, hallID, bookedSeats, faultAt) ==
    IF k > Len(seatIDs) THEN <<>>
    ELSE IF seatIDs[k] \notin DOMAIN Seats \/ faultAt = k
            THEN ErrSeatNotFound(seatIDs[k])
    ELSE IF Seats[seatIDs[k]].hall_id # hallID
            THEN ErrSeatNotInHall(seatIDs[k])
    ELSE IF seatIDs[k] \in bookedSeats
            THEN ErrSeatBooked(seatIDs[k])
    ELSE CheckSeats(seatIDs, k + 1, hallID, bookedSeats, faultAt)

(* the checks of CreateBooking with no seat taken as booked *)
ValidateBookingIgnoreBooked(scheduleID, seatIDs, now, bookedSeats, fault) ==
    IF scheduleID \notin DOMAIN Schedules \/ fault[1] = "schedule"
       THEN ErrScheduleNotFound(scheduleID)
    ELSE IF Schedules[scheduleID].show_date < now - GraceHours
       THEN ErrPastSchedule
    ELSE IF fault[1] = "booked"
       THEN ErrCheckAvailability
    ELSE IF CheckSeats(seatIDs, 1, Schedules[scheduleID].hall_id,
                       {}, fault[2]) # <<>>
       THEN CheckSeats(seatIDs, 1, Schedules[scheduleID].hall_id,
                       {}, fault[2])
    ELSE IF fault[1] = "hall"
       THEN ErrHallNotFound
    ELSE <<>>

(* the checks of CreateBooking before its first write *)
ValidateBooking(scheduleID, seatIDs, now, bookedSeats, fault) ==
    IF scheduleID \notin DOMAIN Schedules \/ fault[1] = "schedule"
       THEN ErrScheduleNotFound(scheduleID)
    ELSE IF Schedules[scheduleID].show_date < now - GraceHours
       THEN ErrPastSchedule
    ELSE IF fault[1] = "booked"
       THEN ErrCheckAvailability
    ELSE IF CheckSeats(seatIDs, 1, Schedules[scheduleID].hall_id,
                       bookedSeats, fault[2]) # <<>>
       THEN CheckSeats(seatIDs, 1, Schedules[scheduleID].hall_id,
                       bookedSeats, fault[2])
    ELSE IF fault[1] = "hall"
       THEN ErrHallNotFound
    ELSE <<>>

(* a total that ignores the number of seats *)
TotalPriceFlat(price, n) == price

(* totalPrice := schedule.Price * float64(len(seatUUIDs)) *)
TotalPrice(price, n) == price * n

CreateCall(userID, scheduleID, seatIDs, now) ==
    [NoCall EXCEPT !.op = "create", !.user = userID, !.sched = scheduleID,
                   !.seats = seatIDs, !.now = now]

(* handler and service up to the availability check *)
CreateBooking(p, userID, scheduleID, seatIDs, now) ==
    /\ Ready(p)
    /\ UNCHANGED <<bookings, bookingSeats, payments, nextId, isAvailable, authVars>>
    /\ IF Len(seatIDs) = 0
          THEN /\ UNCHANGED failures
               /\ Return(p, [CreateCall(userID, scheduleID, seatIDs, now)
                               EXCEPT !.kind = "Validation"])
          ELSE \E fault \in CreateFaults(seatIDs) :
               LET err == ValidateBooking(scheduleID, seatIDs, now,
                               FindBookedSeatsBySchedule(scheduleID), fault)
               IN  /\ Hit(fault[1] # "none")
                   /\ IF err # <<>>
                         THEN Return(p, [CreateCall(userID, scheduleID, seatIDs, now)
                                          EXCEPT !.kind = KindOf(err)])
                         ELSE /\ nextId + Cardinality({q \in Procs : pc[q] = "cb_create"})
                                    <= MaxBookings
                              /\ pc' = [pc EXCEPT ![p] = "cb_create"]
                              /\ loc' = [loc EXCEPT ![p] =
                                    [NoLoc EXCEPT !.user = userID, !.sched = scheduleID,
                                                  !.seats = seatIDs]]
                              /\ last' = [CreateCall(userID, scheduleID, seatIDs, now)
                                            EXCEPT !.kind = "started"]
                              /\ UNCHANGED outcome

(* an insert of the booking row with status confirmed *)
CbCreateBookingConfirmed(p) ==
    /\ pc[p] = "cb_create"
    /\ UNCHANGED <<bookingSeats, payments, isAvailable, authVars>>
    /\ \E fault \in Faults :
        /\ Hit(fault)
        /\ IF fault
              THEN /\ UNCHANGED <<bookings, nextId>>
                   /\ Return(p, [CreateCall(loc[p].user, loc[p].sched, loc[p].seats, 0)
                                   EXCEPT !.kind = KindOf(ErrCreateBooking)])
              ELSE /\ bookings' = bookings @@ (nextId :>
                          [user_id |-> loc[p].user,
                           schedule_id |-> loc[p].sched,
                           total_seats |-> Len(loc[p].seats),
                           total_price |-> TotalPrice(Schedules[loc[p].sched].price,
                                                      Len(loc[p].seats)),
                           status |-> BookingStatusConfirmed])
                   /\ nextId' = nextId + 1
                   /\ pc' = [pc EXCEPT ![p] = "cb_seats"]
                   /\ loc' = [loc EXCEPT ![p].bid = nextId, ![p].i = 1]
                   /\ last' = NoCall
                   /\ UNCHANGED outcome

(* bookingRepository.Create: INSERT INTO bookings *)
CbCreateBooking(p) ==
    /\ pc[p] = "cb_create"
    /\ UNCHANGED <<bookingSeats, payments, isAvailable, authVars>>
    /\ \E fault \in Faults :
        /\ Hit(fault)
        /\ IF fault
              THEN /\ UNCHANGED <<bookings, nextId>>
                   /\ Return(p, [CreateCall(loc[p].user, loc[p].sched, loc[p].seats, 0)
                                   EXCEPT !.kind = KindOf(ErrCreateBooking)])
              ELSE /\ bookings' = bookings @@ (nextId :>
                          [user_id |-> loc[p].user,
                           schedule_id |-> loc[p].sched,
                           total_seats |-> Len(loc[p].seats),
                           total_price |-> TotalPrice(Schedules[loc[p].sched].price,
                                                      Len(loc[p].seats)),
                           status |-> BookingStatusPending])
                   /\ nextId' = nextId + 1
                   /\ pc' = [pc EXCEPT ![p] = "cb_seats"]
                   /\ loc' = [loc EXCEPT ![p].bid = nextId, ![p].i = 1]
                   /\ last' = NoCall
                   /\ UNCHANGED outcome

(* bookingSeatRepository.CreateBatch: one INSERT INTO booking_seats per seat *)
CbCreateSeat(p) ==
    /\ pc[p] = "cb_seats"
    /\ UNCHANGED <<bookings, payments, nextId, isAvailable, authVars>>
    /\ \E fault \in Faults :
        /\ Hit(fault)
        /\ IF fault
              THEN /\ UNCHANGED <<bookingSeats, outcome>>
                   /\ pc' = [pc EXCEPT ![p] = "cb_rollback"]
                   /\ loc' = [loc EXCEPT ![p].err = ErrCreateSeats]
                   /\ last' = NoCall
              ELSE /\ bookingSeats' = bookingSeats \cup
                          {[booking_id |-> loc[p].bid,
                            seat_id |-> loc[p].seats[loc[p].i],
                            idx |-> loc[p].i]}
                   /\ IF loc[p].i < Len(loc[p].seats)
                         THEN /\ loc' = [loc EXCEPT ![p].i = loc[p].i + 1]
                              /\ last' = NoCall
                              /\ UNCHANGED <<pc, outcome>>
                         ELSE Return(p, [CreateCall(loc[p].user, loc[p].sched, loc[p].seats, 0)
                                          EXCEPT !.kind = "OK", !.bid = loc[p].bid])

(* a rollback that leaves the booking row in place *)
CbRollbackKeep(p) ==
    /\ pc[p] = "cb_rollback"
    /\ UNCHANGED <<bookingSeats, payments, nextId, isAvailable, authVars>>
    /\ \E fault \in Faults :
        /\ Hit(fault)
        /\ bookings' = bookings
        /\ Return(p, [CreateCall(loc[p].user, loc[p].sched, loc[p].seats, 0)
                        EXCEPT !.kind = KindOf(loc[p].err), !.bid = loc[p].bid])

(* the rollback of CreateBooking: bookingRepository.Delete, its error ignored *)
CbRollback(p) ==
    /\ pc[p] = "cb_rollback"
    /\ UNCHANGED <<bookingSeats, payments, nextId, isAvailable, authVars>>
    /\ \E fault \in Faults :
        /\ Hit(fault)
        /\ bookings' = IF fault \/ loc[p].bid \notin DOMAIN bookings
                          THEN bookings
                          ELSE [b \in DOMAIN bookings \ {loc[p].bid} |-> bookings[b]]
        /\ Return(p, [CreateCall(loc[p].user, loc[p].sched, loc[p].seats, 0)
                        EXCEPT !.kind = KindOf(loc[p].err), !.bid = loc[p].bid])

(* ------------------- CreateBooking, one seat at a time ------------------ *)
(* The same checks with the seat loop unfolded: the statements of another  *)
(* request can run between the read of the booked seats and the check of   *)
(* each seat.                                                              *)

(* handler and service up to the read of the booked seats *)
CreateBookingRead(p, userID, scheduleID, seatIDs, now) ==
    /\ Ready(p)
    /\ UNCHANGED <<bookings, bookingSeats, payments, nextId, failures, isAvailable, authVars>>
    /\ LET err == ValidateBooking(scheduleID, <<>>, now, {}, <<"none", 0>>)
       IN  IF Len(seatIDs) = 0 \/ err # <<>>
              THEN Return(p, [CreateCall(userID, scheduleID, seatIDs, now)
                               EXCEPT !.kind = IF Len(seatIDs) = 0 THEN "Validation"
                                                                   ELSE KindOf(err)])
              ELSE /\ pc' = [pc EXCEPT ![p] = "cb_check"]
                   /\ loc' = [loc EXCEPT ![p] =
                         [NoLoc EXCEPT !.user = userID, !.sched = scheduleID,
                                       !.seats = seatIDs, !.i = 1,
                                       !.booked = FindBookedSeatsBySchedule(scheduleID)]]
                   /\ last' = [CreateCall(userID, scheduleID, seatIDs, now)
                                 EXCEPT !.kind = "started"]
                   /\ UNCHANGED outcome

(* a pass of the seat loop that reads the booked seats again *)
CbCheckSeatFresh(p) ==
    /\ pc[p] = "cb_check"
    /\ UNCHANGED <<bookings, bookingSeats, payments, nextId, failures, isAvailable, authVars>>
    /\ LET err == CheckSeats(<<loc[p].seats[loc[p].i]>>, 1,
                             Schedules[loc[p].sched].hall_id,
                             FindBookedSeatsBySchedule(loc[p].sched), 0)
       IN  IF err # <<>>
              THEN Return(p, [CreateCall(loc[p].user, loc[p].sched, loc[p].seats, 0)
                               EXCEPT !.kind = KindOf(err)])
              ELSE IF loc[p].i < Len(loc[p].seats)
              THEN /\ loc' = [loc EXCEPT ![p].i = loc[p].i + 1]
                   /\ last' = NoCall
                   /\ UNCHANGED <<pc, outcome>>
              ELSE /\ nextId + Cardinality({q \in Procs : pc[q] = "cb_create"})
                         <= MaxBookings
                   /\ pc' = [pc EXCEPT ![p] = "cb_create"]
                   /\ last' = NoCall
                   /\ UNCHANGED <<loc, outcome>>

(* one pass of the loop "Check each seat", against the booked seats read   *)
(* before the loop; after the last seat the hall lookup and the entity     *)
CbCheckSeat(p) ==
    /\ pc[p] = "cb_check"
    /\ UNCHANGED <<bookings, bookingSeats, payments, nextId, failures, isAvailable, authVars>>
    /\ LET err == CheckSeats(<<loc[p].seats[loc[p].i]>>, 1,
                             Schedules[loc[p].sched].hall_id,
                             loc[p].booked, 0)
       IN  IF err # <<>>
              THEN Return(p, [CreateCall(loc[p].user, loc[p].sched, loc[p].seats, 0)
                               EXCEPT !.kind = KindOf(err)])
              ELSE IF loc[p].i < Len(loc[p].seats)
              THEN /\ loc' = [loc EXCEPT ![p].i = loc[p].i + 1]
                   /\ last' = NoCall
                   /\ UNCHANGED <<pc, outcome>>
              ELSE /\ nextId + Cardinality({q \in Procs : pc[q] = "cb_create"})
                         <= MaxBookings
                   /\ pc' = [pc EXCEPT ![p] = "cb_create"]
                   /\ last' = NoCall
                   /\ UNCHANGED <<loc, outcome>>

(* ---------------------------- ProcessPayment ---------------------------- *)

PaymentFaults ==
    IF failures < MaxFailures THEN {"none", "booking", "method"} ELSE {"none"}

(* the checks of ProcessPayment without the status check *)
ValidatePaymentAnyStatus(userID, bookingID, booking, methodID, amount, fault) ==
    IF booking = NoBooking
       THEN ErrBookingNotFound(bookingID)
    ELSE IF booking.user_id # userID
       THEN ErrUnauthorized
    ELSE IF amount # booking.total_price
       THEN ErrAmount(amount, booking.total_price)
    ELSE IF methodID \notin DOMAIN PaymentMethods \/ fault = "method"
       THEN ErrMethodNotFound(methodID)
    ELSE IF ~PaymentMethods[methodID].is_active
       THEN ErrMethodInactive(PaymentMethods[methodID].name)
    ELSE <<>>

(* the checks of ProcessPayment without the check of the amount *)
ValidatePaymentAnyAmount(userID, bookingID, booking, methodID, amount, fault) ==
    IF booking = NoBooking
       THEN ErrBookingNotFound(bookingID)
    ELSE IF booking.user_id # userID
       THEN ErrUnauthorized
    ELSE IF booking.status # BookingStatusPending
       THEN ErrStatusPayment(booking.status)
    ELSE IF methodID \notin DOMAIN PaymentMethods \/ fault = "method"
       THEN ErrMethodNotFound(methodID)
    ELSE IF ~PaymentMethods[methodID].is_active
       THEN ErrMethodInactive(PaymentMethods[methodID].name)
    ELSE <<>>

(* the checks of ProcessPayment with the status checked before the owner *)
ValidatePaymentStatusFirst(userID, bookingID, booking, methodID, amount, fault) ==
    IF booking = NoBooking
       THEN ErrBookingNotFound(bookingID)
    ELSE IF booking.status # BookingStatusPending
       THEN ErrStatusPayment(booking.status)
    ELSE IF booking.user_id # userID
       THEN ErrUnauthorized
    ELSE IF amount # booking.total_price
       THEN ErrAmount(amount, booking.total_price)
    ELSE IF methodID \notin DOMAIN PaymentMethods \/ fault = "method"
       THEN ErrMethodNotFound(methodID)
    ELSE IF ~PaymentMethods[methodID].is_active
       THEN ErrMethodInactive(PaymentMethods[methodID].name)
    ELSE <<>>

(* the checks of ProcessPayment before its first write; booking is the row *)
(* FindByID returned, NoBooking when it returned none                      *)
ValidatePayment(userID, bookingID, booking, methodID, amount, fault) ==
    IF booking = NoBooking
       THEN ErrBookingNotFound(bookingID)
    ELSE IF booking.user_id # userID
       THEN ErrUnauthorized
    ELSE IF booking.status # BookingStatusPending
       THEN ErrStatusPayment(booking.status)
    ELSE IF amount # booking.total_price
       THEN ErrAmount(amount, booking.total_price)
    ELSE IF methodID \notin DOMAIN PaymentMethods \/ fault = "method"
       THEN ErrMethodNotFound(methodID)
    ELSE IF ~PaymentMethods[methodID].is_active
       THEN ErrMethodInactive(PaymentMethods[methodID].name)
    ELSE <<>>

(* bookingRepository.FindByID; a failed query is treated as no row *)
FindByID(bookingID, fault) ==
    IF bookingID \in DOMAIN bookings /\ ~fault THEN bookings[bookingID] ELSE NoBooking

PaymentCall(userID, bookingID, methodID, amount, booking) ==
    [NoCall EXCEPT !.op = "pay", !.user = userID, !.bid = bookingID,
                   !.method = methodID, !.amount = amount, !.seen = booking]

(* handler and service up to the checks on the booking that was read *)
ProcessPayment(p, userID, bookingID, methodID, amount) ==
    /\ Ready(p)
    /\ UNCHANGED <<bookings, bookingSeats, payments, nextId, isAvailable, authVars>>
    /\ IF amount < MinAmount
          THEN /\ UNCHANGED failures
               /\ Return(p, [PaymentCall(userID, bookingID, methodID, amount, NoBooking)
                               EXCEPT !.kind = "Validation"])
          ELSE \E fault \in PaymentFaults :
               LET booking == FindByID(bookingID, fault = "booking")
                   err == ValidatePayment(userID, bookingID, booking, methodID, amount, fault)
               IN  /\ Hit(fault # "none")
                   /\ IF err # <<>>
                         THEN Return(p, [PaymentCall(userID, bookingID, methodID, amount, booking)
                                          EXCEPT !.kind = KindOf(err)])
                         ELSE /\ Len(payments) + Cardinality({q \in Procs : pc[q] = "pp_create"})
                                    < MaxPayments
                              /\ pc' = [pc EXCEPT ![p] = "pp_create"]
                              /\ loc' = [loc EXCEPT ![p] =
                                    [NoLoc EXCEPT !.user = userID, !.bid = bookingID,
                                                  !.method = methodID, !.amount = amount,
                                                  !.snap = booking]]
                              /\ last' = [PaymentCall(userID, bookingID, methodID, amount, booking)
                                            EXCEPT !.kind = "started"]
                              /\ UNCHANGED outcome

(* an insert of the payment whose failure does not stop the call *)
PpCreatePaymentIgnoreError(p) ==
    /\ pc[p] = "pp_create"
    /\ UNCHANGED <<bookings, bookingSeats, nextId, isAvailable, authVars>>
    /\ \E fault \in Faults :
        /\ Hit(fault)
        /\ payments' = IF fault THEN payments
                       ELSE Append(payments,
                               [booking_id |-> loc[p].bid,
                                payment_method_id |-> loc[p].method,
                                amount |-> loc[p].amount,
                                status |-> PaymentStatusCompleted])
        /\ pc' = [pc EXCEPT ![p] = "pp_update"]
        /\ last' = NoCall
        /\ UNCHANGED <<loc, outcome>>

(* paymentRepository.Create: INSERT INTO payments *)
PpCreatePayment(p) ==
    /\ pc[p] = "pp_create"
    /\ UNCHANGED <<bookings, bookingSeats, nextId, isAvailable, authVars>>
    /\ \E fault \in Faults :
        /\ Hit(fault)
        /\ IF fault
              THEN /\ UNCHANGED payments
                   /\ Return(p, [PaymentCall(loc[p].user, loc[p].bid, loc[p].method,
                                              loc[p].amount, loc[p].snap)
                                   EXCEPT !.kind = KindOf(ErrCreatePayment)])
              ELSE /\ payments' = Append(payments,
                          [booking_id |-> loc[p].bid,
                           payment_method_id |-> loc[p].method,
                           amount |-> loc[p].amount,
                           status |-> PaymentStatusCompleted])
                   /\ pc' = [pc EXCEPT ![p] = "pp_update"]
                   /\ last' = NoCall
                   /\ UNCHANGED <<loc, outcome>>

(* bookingRepository.Update: every column is written from the booking the  *)
(* call read, with status confirmed; an error is logged and ignored        *)
Update(booking, bookingID, fault) ==
    IF fault \/ bookingID \notin DOMAIN bookings
       THEN bookings
       ELSE [bookings EXCEPT ![bookingID] = booking]

(* an update of the booking whose failure is returned to the caller *)
PpUpdateBookingStrict(p) ==
    /\ pc[p] = "pp_update"
    /\ UNCHANGED <<bookingSeats, payments, nextId, isAvailable, authVars>>
    /\ \E fault \in Faults :
        /\ Hit(fault)
        /\ bookings' = Update([loc[p].snap EXCEPT !.status = BookingStatusConfirmed],
                               loc[p].bid, fault)
        /\ Return(p, [PaymentCall(loc[p].user, loc[p].bid, loc[p].method,
                                   loc[p].amount, loc[p].snap)
                        EXCEPT !.kind = IF fault THEN "Internal" ELSE "OK"])

PpUpdateBooking(p) ==
    /\ pc[p] = "pp_update"
    /\ UNCHANGED <<bookingSeats, payments, nextId, isAvailable, authVars>>
    /\ \E fault \in Faults :
        /\ Hit(fault)
        /\ bookings' = Update([loc[p].snap EXCEPT !.status = BookingStatusConfirmed],
                               loc[p].bid, fault)
        /\ Return(p, [PaymentCall(loc[p].user, loc[p].bid, loc[p].method,
                                   loc[p].amount, loc[p].snap)
                        EXCEPT !.kind = "OK"])

(* ----------------------------- CancelBooking ---------------------------- *)

CancelCall(bookingID, booking) ==
    [NoCall EXCEPT !.op = "cancel", !.bid = bookingID, !.seen = booking]

(* the checks of CancelBooking without the status check *)
ValidateCancelAnyStatus(bookingID, booking) ==
    IF booking = NoBooking THEN ErrBookingNotFound(bookingID) ELSE <<>>

(* the checks of CancelBooking before its write *)
ValidateCancel(bookingID, booking) ==
    IF booking = NoBooking
       THEN ErrBookingNotFound(bookingID)
    ELSE IF booking.status # BookingStatusPending
            /\ booking.status # BookingStatusConfirmed
       THEN ErrStatusCancel(booking.status)
    ELSE <<>>

CancelBooking(p, bookingID) ==
    /\ Ready(p)
    /\ UNCHANGED <<bookings, bookingSeats, payments, nextId, isAvailable, authVars>>
    /\ \E fault \in Faults :
        LET booking == FindByID(bookingID, fault)
            err == ValidateCancel(bookingID, booking)
        IN  /\ Hit(fault)
            /\ IF err # <<>>
                  THEN Return(p, [CancelCall(bookingID, booking) EXCEPT !.kind = KindOf(err)])
                  ELSE /\ pc' = [pc EXCEPT ![p] = "cn_update"]
                       /\ loc' = [loc EXCEPT ![p] =
                             [NoLoc EXCEPT !.bid = bookingID, !.snap = booking]]
                       /\ last' = [CancelCall(bookingID, booking) EXCEPT !.kind = "started"]
                       /\ UNCHANGED outcome

(* a status update that stores expired *)
UpdateStatusExpired(bookingID, status) ==
    [bookings EXCEPT ![bookingID].status = BookingStatusExpired]

(* bookingRepository.UpdateStatus: UPDATE bookings SET status WHERE id *)
UpdateStatus(bookingID, status) ==
    [bookings EXCEPT ![bookingID].status = status]

CnUpdateStatus(p) ==
    /\ pc[p] = "cn_update"
    /\ UNCHANGED <<bookingSeats, payments, nextId, isAvailable, authVars>>
    /\ \E fault \in Faults :
        /\ Hit(fault)
        /\ IF fault
              THEN /\ UNCHANGED bookings
                   /\ Return(p, [CancelCall(loc[p].bid, loc[p].snap) EXCEPT
                          !.kind = KindOf(ErrCancel(loc[p].bid, ErrUpdateStatus(loc[p].bid)))])
              ELSE IF loc[p].bid \notin DOMAIN bookings
              THEN /\ UNCHANGED bookings
                   /\ Return(p, [CancelCall(loc[p].bid, loc[p].snap) EXCEPT
                          !.kind = KindOf(ErrCancel(loc[p].bid, ErrBookingNotFound(loc[p].bid)))])
              ELSE /\ bookings' = UpdateStatus(loc[p].bid, BookingStatusCancelled)
                   /\ Return(p, [CancelCall(loc[p].bid, loc[p].snap) EXCEPT !.kind = "OK"])

(* -------------------------- GetSeatAvailability ------------------------- *)

(* hallRepository.FindByCinemaID: the halls of the cinema, by hall number *)
Halls == <<"h1", "h2">>

(* seatRepository.FindByHallID: the seats of a hall, by row and column; the *)
(* query has no condition on is_available                                  *)
FindByHallID(hallID) ==
    SelectSeq(<<"A1", "A2", "B1">>, LAMBDA x : Seats[x].hall_id = hallID)

(* scheduleRepository.FindByDateAndHall and the search of the show time *)
TargetSchedules(hallID, date, time) ==
    {s \in DOMAIN Schedules :
        /\ Schedules[s].hall_id = hallID
        /\ Schedules[s].show_date = date
        /\ Schedules[s].show_time = time}

ErrGetHalls == <<"get halls for cinema", "c1", ":", DbError>>

(* the reads of GetSeatAvailability that may fail, and the hall they are for *)
AvailFaults(date, time) ==
    IF failures < MaxFailures
       THEN {<<"none", "">>, <<"halls", "">>}
            \cup {<<"schedules", Halls[k]>> : k \in 1..Len(Halls)}
            \cup {<<kind, Halls[k]>> :
                     kind \in {"seats", "booked"},
                     k \in {j \in 1..Len(Halls) :
                               TargetSchedules(Halls[j], date, time) # {}}}
       ELSE {<<"none", "">>}

(* a hall is skipped when its schedules or its seats cannot be read and    *)
(* when it has no schedule at the date and time                            *)
HallListed(hallID, date, time, fault) ==
    /\ fault # <<"schedules", hallID>>
    /\ TargetSchedules(hallID, date, time) # {}
    /\ fault # <<"seats", hallID>>

(* the response for one hall: every seat with IsAvailable = !isBooked; a   *)
(* failed read of the booked seats leaves the list of booked seats empty   *)
HallResponse(hallID, date, time, fault) ==
    LET target == CHOOSE s \in TargetSchedules(hallID, date, time) : TRUE
        bookedSeats == IF fault = <<"booked", hallID>>
                          THEN {}
                          ELSE FindBookedSeatsBySchedule(target)
        seats == FindByHallID(hallID)
    IN  [hall_id |-> hallID,
         seats |-> [k \in 1..Len(seats) |->
                       [seat_id |-> seats[k],
                        is_available |-> seats[k] \notin bookedSeats]]]

(* the loop over the halls of the cinema *)
RECURSIVE Results(_, _, _, _)
Results(k, date, time, fault) ==
    IF k > Len(Halls) THEN <<>>
    ELSE (IF HallListed(Halls[k], date, time, fault)
             THEN <<HallResponse(Halls[k], date, time, fault)>>
             ELSE <<>>)
         \o Results(k + 1, date, time, fault)

AvailabilityCall(date, time) ==
    [NoCall EXCEPT !.op = "avail", !.date = date, !.time = time]

(* cinemaService.GetSeatAvailability for the cinema of the catalog; the    *)
(* cinema handler maps its one error, a failed read of the halls, by the   *)
(* default case as the booking handler does                                *)
GetSeatAvailability(p, date, time) ==
    /\ Ready(p)
    /\ UNCHANGED <<bookings, bookingSeats, payments, nextId, isAvailable, authVars>>
    /\ \E fault \in AvailFaults(date, time) :
        /\ Hit(fault[1] # "none")
        /\ IF fault[1] = "halls"
              THEN Return(p, [AvailabilityCall(date, time)
                               EXCEPT !.kind = KindOf(ErrGetHalls)])
              ELSE Return(p, [AvailabilityCall(date, time)
                               EXCEPT !.kind = "OK",
                                      !.report = Results(1, date, time, fault)])

(* ------------------------------ VerifyEmail ----------------------------- *)

OtpLength == 6

ErrFindOTP(email) == <<"find OTP for", email, ":", DbError>>
ErrInvalidOTP(email) == <<"invalid or expired", "OTP for email", email>>
ErrFindUser(email) == <<"find user for verification", email, ":", DbError>>
ErrUpdateUser(userID) == <<"update user verification", userID, ":", DbError>>

(* AuthHandler.handleServiceError: the first matching case decides *)
AuthHandleServiceError(errMsg) ==
    IF Contains(errMsg, "not found") THEN "NotFound"
    ELSE IF Contains(errMsg, "already registered")
            \/ Contains(errMsg, "already taken")
            \/ Contains(errMsg, "already verified") THEN "Validation"
    ELSE IF Contains(errMsg, "invalid credentials")
            \/ Contains(errMsg, "incorrect")
            \/ Contains(errMsg, "invalid password") THEN "Unauthorized"
    ELSE IF Contains(errMsg, "deactivated") THEN "Forbidden"
    ELSE IF Contains(errMsg, "validation failed") THEN "Validation"
    ELSE IF Contains(errMsg, "invalid or expired") THEN "Validation"
    ELSE "Internal"

(* the rows the query of otpRepository.FindValidOTP selects *)
MatchingOTPs(email, code, now) ==
    {k \in DOMAIN otps :
        /\ otps[k].email = email
        /\ otps[k].otp_code = code
        /\ otps[k].is_used = FALSE
        /\ otps[k].expires_at > now}

(* otpRepository.FindValidOTP: the newest matching row, 0 for no row;   *)
(* rows are stored in the order of their creation                        *)
FindValidOTP(email, code, now) ==
    LET rows == MatchingOTPs(email, code, now)
    IN  IF rows = {} THEN 0
        ELSE CHOOSE k \in rows : \A j \in rows : j <= k

VerifyCall(email, code, now) ==
    [NoCall EXCEPT !.op = "verify", !.email = email, !.code = code, !.now = now]

(* AuthHandler.VerifyEmail and authService.VerifyEmail up to the lookup *)
(* of the code                                                           *)
VerifyEmail(p, email, code, now) ==
    /\ Ready(p)
    /\ UNCHANGED <<bookingVars, authVars>>
    /\ \E fault \in Faults :
        LET otp == FindValidOTP(email, code, now)
            err == IF Len(code) # OtpLength THEN <<"validation failed">>
                   ELSE IF fault THEN ErrFindOTP(email)
                   ELSE IF otp = 0 THEN ErrInvalidOTP(email)
                   ELSE <<>>
        IN  /\ fault => Len(code) = OtpLength
            /\ Hit(fault)
            /\ IF err # <<>>
                  THEN Return(p, [VerifyCall(email, code, now) EXCEPT
                                    !.kind = AuthHandleServiceError(err)])
                  ELSE /\ pc' = [pc EXCEPT ![p] = "ve_mark"]
                       /\ loc' = [loc EXCEPT ![p] =
                             [NoLoc EXCEPT !.email = email, !.otp = otp,
                                           !.code = code, !.now = now]]
                       /\ last' = [VerifyCall(email, code, now) EXCEPT !.kind = "started"]
                       /\ UNCHANGED outcome

(* otpRepository.MarkAsUsed: UPDATE otps SET is_used = true WHERE id *)
MarkAsUsed(otpID) == [otps EXCEPT ![otpID].is_used = TRUE]

(* the call of MarkAsUsed; its error is logged and the call goes on *)
VeMarkAsUsed(p) ==
    /\ pc[p] = "ve_mark"
    /\ UNCHANGED <<bookingVars, users, sessions, last, outcome>>
    /\ \E fault \in Faults :
        /\ Hit(fault)
        /\ otps' = IF fault THEN otps ELSE MarkAsUsed(loc[p].otp)
        /\ pc' = [pc EXCEPT ![p] = "ve_user"]
        /\ UNCHANGED loc

(* User.FindByEmail and User.Update of the verified user *)
VeUpdateUser(p) ==
    /\ pc[p] = "ve_user"
    /\ UNCHANGED <<bookingVars, otps, sessions>>
    /\ \E faultAt \in IF failures < MaxFailures THEN 0..2 ELSE {0} :
        LET email == loc[p].email
            call == VerifyCall(email, loc[p].code, loc[p].now)
            err == IF faultAt = 1 \/ email \notin DOMAIN users
                      THEN ErrFindUser(email)
                   ELSE IF faultAt = 2 THEN ErrUpdateUser(users[email].user_id)
                   ELSE <<>>
        IN  /\ Hit(faultAt # 0)
            /\ users' = IF err = <<>>
                           THEN [users EXCEPT ![email].email_verified = TRUE]
                           ELSE users
            /\ Return(p, [call EXCEPT !.kind =
                            IF err = <<>> THEN "OK" ELSE AuthHandleServiceError(err)])

(* ------------------------- Login and AuthSession ------------------------ *)

SessionHours == 24
MaxSessions == 2

(* the tokens uuid.New gives to the sessions, in the order of creation *)
Tokens == <<"t1", "t2", "t3">>
TokenRefs == {Tokens[k] : k \in DOMAIN Tokens} \cup {"t9"}

BookingRoutes == {"POST /api/booking", "GET /api/user/bookings", "POST /api/pay"}
LogoutRoute == "POST /api/logout"

(* An Authorization header is the sequence of its spaces and of its runs *)
(* of other characters: "Bearer t1" is <<"Bearer", " ", "t1">>           *)
Headers ==
    {<<>>, <<"Bearer", " ", "t1">>, <<"Bearer", " ", "t2">>,
     <<"Bearer", " ", "t9">>, <<"t1">>, <<"Bearer", " ", " ", "t1">>,
     <<"Basic", " ", "t1">>}

ErrFindUserByEmail(name) == <<"find user by email", name, ":", DbError>>
ErrFindUserByUsername(name) == <<"find user by username", name, ":", DbError>>
ErrUserNotFound(name) == <<"user", name, "not found">>
ErrInvalidPassword(name) == <<"invalid password", "for user", name>>
ErrDeactivated(name) == <<"account", name, "is", "deactivated">>
ErrCreateSession(userID) == <<"create session for user", userID, ":", DbError>>

LoginCall(username, password, now) ==
    [NoCall EXCEPT !.op = "login", !.email = username, !.now = now]

(* authService.createSession: the row of the new session *)
createSession(userID, now) ==
    [user_id |-> userID, token |-> Tokens[Len(sessions) + 1],
     expires_at |-> now + SessionHours, revoked |-> FALSE]

(* AuthHandler.Login and authService.Login; faultAt names the store call *)
(* that fails: 1 FindByEmail, 2 FindByUsername, 3 Session.Create         *)
Login(p, username, password, now) ==
    /\ Ready(p)
    /\ Len(sessions) < MaxSessions
    /\ UNCHANGED <<bookingVars, otps, users>>
    /\ \E faultAt \in IF failures < MaxFailures THEN 0..3 ELSE {0} :
        LET known == username \in DOMAIN users
            err == IF faultAt = 1 THEN ErrFindUserByEmail(username)
                   ELSE IF faultAt = 2 THEN ErrFindUserByUsername(username)
                   ELSE IF ~known THEN ErrUserNotFound(username)
                   ELSE IF users[username].password # password
                      THEN ErrInvalidPassword(username)
                   ELSE IF ~users[username].is_active THEN ErrDeactivated(username)
                   ELSE IF faultAt = 3 THEN ErrCreateSession(users[username].user_id)
                   ELSE <<>>
        IN  /\ faultAt = 2 => ~known
            /\ faultAt = 3 => /\ known
                              /\ users[username].password = password
                              /\ users[username].is_active
            /\ Hit(faultAt # 0)
            /\ sessions' = IF err = <<>>
                              THEN Append(sessions,
                                          createSession(users[username].user_id, now))
                              ELSE sessions
            /\ Return(p, [LoginCall(username, password, now) EXCEPT
                            !.user = IF err = <<>> THEN users[username].user_id ELSE "",
                            !.kind = IF err = <<>> THEN "OK"
                                     ELSE AuthHandleServiceError(err)])

(* strings.Split: the parts of s between the occurrences of sep *)
RECURSIVE SplitFrom(_, _, _, _, _)
SplitFrom(s, sep, k, part, parts) ==
    IF k > Len(s) THEN Append(parts, part)
    ELSE IF s[k] = sep THEN SplitFrom(s, sep, k + 1, <<>>, Append(parts, part))
    ELSE SplitFrom(s, sep, k + 1, Append(part, s[k]), parts)

Split(s, sep) == SplitFrom(s, sep, 1, <<>>, <<>>)

(* sessionRepository.FindValidSession: the row of the token that is not *)
(* revoked and not expired, 0 for no row                                *)
FindValidSession(token, now) ==
    LET rows == {k \in DOMAIN sessions :
                    /\ <<sessions[k].token>> = token
                    /\ ~sessions[k].revoked
                    /\ sessions[k].expires_at > now}
    IN  IF rows = {} THEN 0 ELSE CHOOSE k \in rows : TRUE

(* sessionRepository.Revoke: UPDATE sessions SET revoked_at WHERE token *)
Revoke(token) ==
    [k \in DOMAIN sessions |->
        IF <<sessions[k].token>> = token
           THEN [sessions[k] EXCEPT !.revoked = TRUE]
           ELSE sessions[k]]

RequestCall(route, header, now) ==
    [NoCall EXCEPT !.op = "auth", !.route = route, !.header = header, !.now = now]

(* A request to a route behind the AuthSession middleware.  A request    *)
(* that passes reaches its handler with the user of the session; the     *)
(* handler of the logout route revokes the session.  faultAt names the   *)
(* store call that fails: 1 FindValidSession, 2 Revoke                   *)
AuthSession(p, route, header, now) ==
    /\ Ready(p)
    /\ UNCHANGED <<bookingVars, otps, users>>
    /\ \E faultAt \in IF failures < MaxFailures THEN 0..2 ELSE {0} :
        LET parts == Split(header, " ")
            formatOK == ~(Len(parts) # 2 \/ parts[1] # <<"Bearer", " ">>)
            token == parts[2]
            session == IF header # <<>> /\ formatOK
                          THEN FindValidSession(token, now) ELSE 0
            kind == IF header = <<>> THEN "Unauthorized"
                    ELSE IF ~formatOK THEN "Unauthorized"
                    ELSE IF faultAt = 1 THEN "Internal"
                    ELSE IF session = 0 THEN "Unauthorized"
                    ELSE "passed"
            revokes == kind = "passed" /\ route = LogoutRoute
        IN  /\ faultAt = 1 => header # <<>> /\ formatOK
            /\ faultAt = 2 => revokes
            /\ Hit(faultAt # 0)
            /\ sessions' = IF revokes /\ faultAt = 0 THEN Revoke(token) ELSE sessions
            /\ Return(p, [RequestCall(route, header, now) EXCEPT
                            !.user = IF kind = "passed"
                                        THEN sessions[session].user_id ELSE "",
                            !.kind = kind])

(* the event of the latest step has been observed *)
Collect ==
    /\ last # NoCall
    /\ last' = NoCall
    /\ UNCHANGED <<bookings, bookingSeats, payments, nextId, pc, loc,
                   failures, outcome, isAvailable, authVars>>

(* ---------------------------- specification ----------------------------- *)

Init ==
    /\ bookings = [b \in {} |-> NoBooking]
    /\ bookingSeats = {}
    /\ payments = <<>>
    /\ nextId = 1
    /\ otps = OtpsAfterRegister
    /\ users = UsersAfterRegister
    /\ sessions = <<>>
    /\ isAvailable = [x \in DOMAIN Seats |-> TRUE]
    /\ pc = [p \in Procs |-> "idle"]
    /\ loc = [p \in Procs |-> NoLoc]
    /\ last = NoCall
    /\ failures = 0
    /\ outcome = <<>>

(* Concurrent requests.  The requests are the ones whose statements       *)
(* interleave with effect: bookings of seat A1 of schedule s1, alone or    *)
(* after seat A2, payments of the owner with the two totals, cancellations *)
Next ==
    \/ \E p \in Procs : Ready(p) /\
          \E seatIDs \in {<<"A1">>, <<"A2", "A1">>} :
             CreateBooking(p, "u1", "s1", seatIDs, 24)
    \/ \E p \in Procs : CbCreateBooking(p)
    \/ \E p \in Procs : CbCreateSeat(p)
    \/ \E p \in Procs : CbRollback(p)
    \/ \E p \in Procs : Ready(p) /\
          \E bookingID \in BookingRefs, amount \in {50000, 100000} :
             ProcessPayment(p, "u1", bookingID, "m1", amount)
    \/ \E p \in Procs : PpCreatePayment(p)
    \/ \E p \in Procs : PpUpdateBooking(p)
    \/ \E p \in Procs : Ready(p) /\
          \E bookingID \in BookingRefs : CancelBooking(p, bookingID)
    \/ \E p \in Procs : CnUpdateStatus(p)
    \/ Collect

Spec == Init /\ [][Next]_vars

(* One request at a time, with every request of the input sets *)
Quiet == \A q \in Procs : pc[q] = "idle"

SeqNext ==
    \/ \E p \in Procs : Quiet /\ Ready(p) /\
          \E userID \in Bookers, scheduleID \in ScheduleRefs,
             seatIDs \in SeatLists, now \in Clock :
             CreateBooking(p, userID, scheduleID, seatIDs, now)
    \/ \E p \in Procs : CbCreateBooking(p)
    \/ \E p \in Procs : CbCreateSeat(p)
    \/ \E p \in Procs : CbRollback(p)
    \/ \E p \in Procs : Quiet /\ Ready(p) /\
          \E userID \in Users, bookingID \in BookingRefs,
             methodID \in MethodRefs, amount \in Amounts :
             ProcessPayment(p, userID, bookingID, methodID, amount)
    \/ \E p \in Procs : PpCreatePayment(p)
    \/ \E p \in Procs : PpUpdateBooking(p)
    \/ \E p \in Procs : Quiet /\ Ready(p) /\
          \E bookingID \in BookingRefs : CancelBooking(p, bookingID)
    \/ \E p \in Procs : CnUpdateStatus(p)
    \/ Collect

SeqSpec == Init /\ [][SeqNext]_vars

(* The property test of the seat race: NumRacers calls of CreateBooking    *)
(* for seat A1 of schedule s1, started in any order and overlapping in any *)
(* way, on a store that does not fail                                      *)
RaceInit ==
    /\ bookings = [b \in {} |-> NoBooking]
    /\ bookingSeats = {}
    /\ payments = <<>>
    /\ nextId = 1
    /\ otps = OtpsAfterRegister
    /\ users = UsersAfterRegister
    /\ sessions = <<>>
    /\ isAvailable = [x \in DOMAIN Seats |-> TRUE]
    /\ pc = [p \in Procs |-> "idle"]
    /\ loc = [p \in Procs |-> NoLoc]
    /\ last = NoCall
    /\ failures = MaxFailures
    /\ outcome = [k \in 1..NumRacers |-> "none"]

RaceOpen ==
    Cardinality({k \in DOMAIN outcome : outcome[k] = "none"})
        > Cardinality({q \in Procs : pc[q] # "idle"})

RaceNext ==
    \/ \E p \in Procs : Ready(p) /\ RaceOpen /\
          \E userID \in Users : CreateBooking(p, userID, "s1", <<"A1">>, 24)
    \/ \E p \in Procs : CbCreateBooking(p)
    \/ \E p \in Procs : CbCreateSeat(p)
    \/ Collect

RaceSpec == RaceInit /\ [][RaceNext]_vars

(* Requests whose seats are checked one at a time, on a store that does    *)
(* not fail: bookings of seat A1 alone or after seat A2, and cancellations *)
SnapInit ==
    /\ bookings = [b \in {} |-> NoBooking]
    /\ bookingSeats = {}
    /\ payments = <<>>
    /\ nextId = 1
    /\ otps = OtpsAfterRegister
    /\ users = UsersAfterRegister
    /\ sessions = <<>>
    /\ isAvailable = [x \in DOMAIN Seats |-> TRUE]
    /\ pc = [p \in Procs |-> "idle"]
    /\ loc = [p \in Procs |-> NoLoc]
    /\ last = NoCall
    /\ failures = MaxFailures
    /\ outcome = <<>>

SnapNext ==
    \/ \E p \in Procs : Ready(p) /\
          \E seatIDs \in {<<"A1">>, <<"A2", "A1">>} :
             CreateBookingRead(p, "u1", "s1", seatIDs, 24)
    \/ \E p \in Procs : CbCheckSeat(p)
    \/ \E p \in Procs : CbCreateBooking(p)
    \/ \E p \in Procs : CbCreateSeat(p)
    \/ \E p \in Procs : Ready(p) /\
          \E bookingID \in BookingRefs : CancelBooking(p, bookingID)
    \/ \E p \in Procs : CnUpdateStatus(p)
    \/ Collect

SnapSpec == SnapInit /\ [][SnapNext]_vars

(* One request at a time on a store whose seats carry any values of the    *)
(* stored flag is_available                                                *)
FlagInit ==
    /\ bookings = [b \in {} |-> NoBooking]
    /\ bookingSeats = {}
    /\ payments = <<>>
    /\ nextId = 1
    /\ otps = OtpsAfterRegister
    /\ users = UsersAfterRegister
    /\ sessions = <<>>
    /\ isAvailable \in [DOMAIN Seats -> BOOLEAN]
    /\ pc = [p \in Procs |-> "idle"]
    /\ loc = [p \in Procs |-> NoLoc]
    /\ last = NoCall
    /\ failures = 0
    /\ outcome = <<>>

FlagNext ==
    \/ \E p \in Procs : Quiet /\ Ready(p) /\
          \E seatIDs \in {<<"A1">>, <<"A2", "A1">>, <<"A2", "B1">>} :
             CreateBooking(p, "u1", "s1", seatIDs, 24)
    \/ \E p \in Procs : CbCreateBooking(p)
    \/ \E p \in Procs : CbCreateSeat(p)
    \/ \E p \in Procs : CbRollback(p)
    \/ \E p \in Procs : Quiet /\ Ready(p) /\
          \E bookingID \in BookingRefs :
             ProcessPayment(p, "u1", bookingID, "m1", 50000)
    \/ \E p \in Procs : PpCreatePayment(p)
    \/ \E p \in Procs : PpUpdateBooking(p)
    \/ \E p \in Procs : Quiet /\ Ready(p) /\
          \E bookingID \in BookingRefs : CancelBooking(p, bookingID)
    \/ \E p \in Procs : CnUpdateStatus(p)
    \/ \E p \in Procs : Quiet /\ Ready(p) /\
          \E date \in {0, 48}, time \in {20, 21} :
             GetSeatAvailability(p, date, time)
    \/ Collect

FlagSpec == FlagInit /\ [][FlagNext]_vars

(* The property test of email verification: after the registration of u1, *)
(* NumRacers calls of VerifyEmail, started in any order and overlapping   *)
(* in any way, with the code that was sent, another code or a short code  *)
OtpInit ==
    /\ bookings = [b \in {} |-> NoBooking]
    /\ bookingSeats = {}
    /\ payments = <<>>
    /\ nextId = 1
    /\ otps = OtpsAfterRegister
    /\ users = UsersAfterRegister
    /\ sessions = <<>>
    /\ isAvailable = [x \in DOMAIN Seats |-> TRUE]
    /\ pc = [p \in Procs |-> "idle"]
    /\ loc = [p \in Procs |-> NoLoc]
    /\ last = NoCall
    /\ failures = 0
    /\ outcome = [k \in 1..NumRacers |-> "none"]

OtpCodes == {<<1, 1, 1, 1, 1, 1>>, <<0, 0, 0, 0, 0, 0>>, <<1, 2>>}

OtpNext ==
    \/ \E p \in Procs : Ready(p) /\ RaceOpen /\
          \E email \in {"e1", "e9"}, code \in OtpCodes, now \in Clock :
             VerifyEmail(p, email, code, now)
    \/ \E p \in Procs : VeMarkAsUsed(p)
    \/ \E p \in Procs : VeUpdateUser(p)
    \/ Collect

OtpSpec == OtpInit /\ [][OtpNext]_vars

(* Logins and requests to the routes behind the AuthSession middleware,  *)
(* one at a time, at the hour a session is created or the hour it ends    *)
AuthNext ==
    \/ \E p \in Procs : Quiet /\
          \E username \in {"e1", "e9"}, password \in {"secret", "wrong1"},
             now \in {0, SessionHours} :
             Login(p, username, password, now)
    \/ \E p \in Procs : Quiet /\
          \E route \in BookingRoutes \cup {LogoutRoute}, header \in Headers,
             now \in {0, SessionHours} :
             AuthSession(p, route, header, now)
    \/ Collect

AuthSpec == Init /\ [][AuthNext]_vars

(* ------------------------------ properties ------------------------------ *)

Returned(call, op) == call.op = op /\ call.kind \notin {"none", "started"}

(* the bookings with an active status that hold a row for seat x of s *)
HoldersIn(bks, rows, s, x) ==
    {b \in DOMAIN bks :
        /\ bks[b].schedule_id = s
        /\ bks[b].status \in ActiveStatuses
        /\ \E r \in rows : r.booking_id = b /\ r.seat_id = x}

Holders(s, x) == HoldersIn(bookings, bookingSeats, s, x)

SeatsOf(b) == {r.seat_id : r \in {q \in bookingSeats : q.booking_id = b}}

CompletedPayments(b) ==
    {k \in DOMAIN payments :
        payments[k].booking_id = b /\ payments[k].status = PaymentStatusCompleted}

(* C1: for every schedule and seat, at most one booking with status       *)
(* pending or confirmed holds a booking seat for that seat                 *)
C1_NoDoubleBooking ==
    \A s \in DOMAIN Schedules, x \in DOMAIN Seats : Cardinality(Holders(s, x)) <= 1

(* C2: when the calls of the seat race have all returned, exactly one of  *)
(* them succeeded and every other one failed with Conflict                 *)
C2_ExactlyOneWins ==
    (DOMAIN outcome # {} /\ \A k \in DOMAIN outcome : outcome[k] # "none")
        => /\ Cardinality({k \in DOMAIN outcome : outcome[k] = "OK"}) = 1
           /\ \A k \in DOMAIN outcome : outcome[k] \in {"OK", "Conflict"}

(* C3: a stored status only moves pending -> confirmed, pending ->        *)
(* cancelled or confirmed -> cancelled; no write moves a booking out of    *)
(* cancelled or from confirmed back to pending                             *)
AllowedTransitions ==
    {<<BookingStatusPending, BookingStatusConfirmed>>,
     <<BookingStatusPending, BookingStatusCancelled>>,
     <<BookingStatusConfirmed, BookingStatusCancelled>>}

C3_StatusMonotone ==
    [][\A b \in DOMAIN bookings \cap DOMAIN bookings' :
          \/ bookings'[b].status = bookings[b].status
          \/ <<bookings[b].status, bookings'[b].status>> \in AllowedTransitions]_vars

(* C4: every booking has at most one payment with status completed *)
C4_OneCompletedPayment ==
    \A b \in BookingRefs : Cardinality(CompletedPayments(b)) <= 1

(* C5: when CancelBooking(b) returns success no seat of b is among the    *)
(* booked seats of b's schedule, and a seat of a cancelled booking becomes *)
(* booked again only by a new booking seat of another booking              *)
C5_CancelFreesSeats ==
    [][/\ (Returned(last', "cancel") /\ last'.kind = "OK")
            => \A x \in SeatsOf(last'.bid) :
                  HoldersIn(bookings', bookingSeats',
                            bookings'[last'.bid].schedule_id, x) = {}
       /\ \A b \in DOMAIN bookings : \A x \in SeatsOf(b) :
            (/\ bookings[b].status = BookingStatusCancelled
             /\ Holders(bookings[b].schedule_id, x) = {}
             /\ HoldersIn(bookings', bookingSeats',
                          bookings[b].schedule_id, x) # {})
            => \E r \in bookingSeats' \ bookingSeats :
                  r.seat_id = x /\ r.booking_id # b]_vars

PriceHolds ==
    /\ \A b \in DOMAIN bookings :
          bookings[b].total_price
              = Schedules[bookings[b].schedule_id].price * bookings[b].total_seats
    /\ (Returned(last, "create") /\ last.kind = "OK")
          => /\ last.bid \in DOMAIN bookings
             /\ bookings[last.bid].total_seats = Len(last.seats)
             /\ bookings[last.bid].total_price
                   = Schedules[last.sched].price * Len(last.seats)

C7_MismatchIsValidation ==
    (/\ Returned(last, "pay")
     /\ last.seen # NoBooking
     /\ last.seen.user_id = last.user
     /\ last.seen.status = BookingStatusPending
     /\ last.amount # last.seen.total_price)
    => last.kind = "Validation"

(* C8 as claimed: ProcessPayment on a booking whose stored status is not  *)
(* pending fails with InvalidState and writes nothing                      *)
C8_NotPendingIsInvalidState ==
    [][(/\ Quiet
        /\ Returned(last', "pay")
        /\ last'.bid \in DOMAIN bookings
        /\ bookings[last'.bid].status # BookingStatusPending)
       => (/\ last'.kind = "InvalidState"
           /\ payments' = payments
           /\ bookings' = bookings)]_vars

(* C8 as amended: ProcessPayment by the owner of the booking, with a      *)
(* request that passes validation, on a booking it reads as not pending    *)
(* fails with InvalidState and writes nothing                              *)
C8_OwnerNotPendingIsInvalidState ==
    [][(/\ Returned(last', "pay")
        /\ last'.amount >= MinAmount
        /\ last'.seen # NoBooking
        /\ last'.seen.user_id = last'.user
        /\ last'.seen.status # BookingStatusPending)
       => (/\ last'.kind = "InvalidState"
           /\ payments' = payments
           /\ bookings' = bookings)]_vars

C8_Witness ==
    /\ Returned(last, "pay")
    /\ last.kind = "InvalidState"
    /\ last.seen.user_id = last.user
    /\ last.seen.status = BookingStatusCancelled
    /\ last.amount = last.seen.total_price

(* C9: CancelBooking succeeds only on a booking it reads as pending or    *)
(* confirmed; on a booking it reads as cancelled or expired it fails with  *)
(* InvalidState and leaves the bookings unchanged                          *)
C9_CancelOnlyFromActive ==
    [][/\ (Returned(last', "cancel") /\ last'.kind = "OK")
            => /\ last'.seen.status \in {BookingStatusPending, BookingStatusConfirmed}
               /\ bookings[last'.bid].status = last'.seen.status
               /\ bookings'[last'.bid].status = BookingStatusCancelled
       /\ (/\ Returned(last', "cancel")
           /\ last'.seen # NoBooking
           /\ last'.seen.status \notin {BookingStatusPending, BookingStatusConfirmed})
           => (last'.kind = "InvalidState" /\ bookings' = bookings)]_vars

C9_Witness ==
    /\ Returned(last, "cancel")
    /\ last.kind = "InvalidState"
    /\ last.seen.status = BookingStatusCancelled
    /\ bookings[last.bid].status = BookingStatusCancelled

(* C10 as claimed: ProcessPayment by a user who is not the owner of the   *)
(* booking fails with Unauthorized whatever the amount, and writes nothing *)
C10_NonOwnerIsUnauthorized ==
    [][(/\ Quiet
        /\ Returned(last', "pay")
        /\ last'.bid \in DOMAIN bookings
        /\ bookings[last'.bid].user_id # last'.user)
       => (/\ last'.kind = "Unauthorized"
           /\ payments' = payments
           /\ bookings' = bookings)]_vars

(* C10 as amended: ProcessPayment with an amount of at least MinAmount by *)
(* a user who is not the owner of the booking it reads fails with          *)
(* Unauthorized whatever the payment method and the status, and writes     *)
(* nothing                                                                 *)
C10_ValidNonOwnerIsUnauthorized ==
    [][(/\ Returned(last', "pay")
        /\ last'.amount >= MinAmount
        /\ last'.seen # NoBooking
        /\ last'.seen.user_id # last'.user)
       => (/\ last'.kind = "Unauthorized"
           /\ payments' = payments
           /\ bookings' = bookings)]_vars

C10_Witness ==
    /\ Returned(last, "pay")
    /\ last.kind = "Unauthorized"
    /\ last.seen.user_id # last.user
    /\ last.seen.status = BookingStatusCancelled
    /\ last.amount # last.seen.total_price
    /\ last.method = "m2"

(* the seats of schedule s with a booking seat whose parent booking is on s *)
(* and is pending or confirmed                                             *)
HeldSeats(s) ==
    {x \in SeatRefs :
        \E b \in DOMAIN bookings :
            /\ bookings[b].schedule_id = s
            /\ bookings[b].status \in {"pending", "confirmed"}
            /\ \E r \in bookingSeats : r.booking_id = b /\ r.seat_id = x}

NamesBookedSeat(call) ==
    /\ call.op = "create"
    /\ call.sched \in DOMAIN Schedules
    /\ \E k \in 1..Len(call.seats) :
          call.seats[k] \in FindBookedSeatsBySchedule(call.sched)

SeatPasses(x, scheduleID) ==
    x \in DOMAIN Seats /\ Seats[x].hall_id = Schedules[scheduleID].hall_id

(* the first seat of the request that fails a check is a booked seat *)
BookedSeatFailsFirst(call) ==
    \E k \in 1..Len(call.seats) :
        /\ call.seats[k] \in FindBookedSeatsBySchedule(call.sched)
        /\ SeatPasses(call.seats[k], call.sched)
        /\ \A j \in 1..(k - 1) :
              /\ SeatPasses(call.seats[j], call.sched)
              /\ call.seats[j] \notin FindBookedSeatsBySchedule(call.sched)

C13_RollbackKeepsError ==
    [][\A p \in Procs :
        /\ (pc[p] = "cb_seats" /\ pc'[p] = "idle") => last'.kind = "OK"
        /\ (pc[p] = "cb_seats" /\ bookingSeats' = bookingSeats)
              => (pc'[p] = "cb_rollback" /\ loc'[p].err = ErrCreateSeats)
        /\ (pc[p] = "cb_rollback" /\ pc'[p] # "cb_rollback")
              => /\ pc'[p] = "idle"
                 /\ loc[p].err = ErrCreateSeats
                 /\ last'.op = "create" /\ last'.bid = loc[p].bid
                 /\ last'.kind = handleServiceError(ErrCreateSeats)
                 /\ failures' = failures => loc[p].bid \notin DOMAIN bookings'
                 /\ \A b \in DOMAIN bookings \ {loc[p].bid} :
                       b \in DOMAIN bookings' /\ bookings'[b] = bookings[b]]_vars

C13_Witness ==
    /\ Returned(last, "create")
    /\ last.kind = handleServiceError(ErrCreateSeats)
    /\ last.bid \in DOMAIN bookings
    /\ bookings[last.bid].status = BookingStatusPending
    /\ failures >= 2

(* C14: when the update of the booking fails after the payment was        *)
(* persisted, ProcessPayment returns success, the payment stays stored as  *)
(* completed and the stored status of the booking stays pending            *)
C14_FailedUpdateIsSuccess ==
    [][\A p \in Procs :
        (pc[p] = "pp_update" /\ failures' # failures)
        => /\ Returned(last', "pay") /\ last'.kind = "OK"
           /\ last'.bid = loc[p].bid
           /\ payments' = payments
           /\ CompletedPayments(loc[p].bid) # {}
           /\ bookings' = bookings
           /\ bookings'[loc[p].bid].status = BookingStatusPending]_vars

C14_Witness ==
    /\ Returned(last, "pay") /\ last.kind = "OK"
    /\ last.bid \in DOMAIN bookings
    /\ bookings[last.bid].status = BookingStatusPending
    /\ CompletedPayments(last.bid) # {}

(* C15: a booking row is first stored with status pending, by the insert  *)
(* of CreateBooking and by no other step                                   *)
C15_StartsPending ==
    [][\A b \in DOMAIN bookings' \ DOMAIN bookings :
          /\ bookings'[b].status = BookingStatusPending
          /\ \E p \in Procs :
                pc[p] = "cb_create" /\ pc'[p] = "cb_seats" /\ loc'[p].bid = b]_vars

C15_Witness ==
    \E p \in Procs :
        /\ pc[p] = "cb_seats" /\ loc[p].i = 1
        /\ loc[p].bid \in DOMAIN bookings
        /\ bookings[loc[p].bid].status = BookingStatusPending
        /\ \E b \in DOMAIN bookings : bookings[b].status = BookingStatusConfirmed

(* every booking seat of a stored booking names a seat of the catalog in  *)
(* the hall of the booking's schedule                                      *)
SeatsInHall ==
    \A r \in bookingSeats :
        r.booking_id \in DOMAIN bookings
        => SeatPasses(r.seat_id, bookings[r.booking_id].schedule_id)

(* the create request of call names a seat that is missing or in a hall   *)
(* other than the one of its schedule                                      *)
NamesBadSeat(call) ==
    /\ call.op = "create"
    /\ call.sched \in DOMAIN Schedules
    /\ \E k \in 1..Len(call.seats) : ~SeatPasses(call.seats[k], call.sched)

(* C16: every booking seat of a booking names an existing seat of the     *)
(* hall of the booking's schedule, and a CreateBooking request naming a    *)
(* missing seat or a seat of another hall fails and writes no row          *)
C16_SeatsValid ==
    [][/\ SeatsInHall'
       /\ (Quiet /\ NamesBadSeat(last'))
            => (/\ last'.kind \notin {"OK", "started"}
                /\ UNCHANGED <<bookings, bookingSeats, payments>>)]_vars

C16_Witness ==
    /\ Returned(last, "create") /\ last.seats = <<"A2", "B1">>
    /\ last.kind # "OK"
    /\ last.sched = "s1"
    /\ failures = 0
    /\ bookingSeats # {}
    /\ \A r \in bookingSeats : r.seat_id = "A1"

(* the hour at which the show of a schedule starts: its date (the hour of *)
(* its midnight) plus its time of day                                      *)
ShowStart(scheduleID) ==
    Schedules[scheduleID].show_date + Schedules[scheduleID].show_time

(* C17: a CreateBooking request on an existing schedule is rejected with  *)
(* InvalidState exactly when the start of the show lies more than 24 hours *)
(* before the current time                                                 *)
C17_RejectsPastShowOnly ==
    [][(/\ Quiet
        /\ Returned(last', "create")
        /\ Len(last'.seats) > 0
        /\ last'.sched \in DOMAIN Schedules
        /\ failures' = failures)
       => (last'.kind = "InvalidState"
             <=> ShowStart(last'.sched) < last'.now - GraceHours)]_vars

(* C18: the stored status of every booking is pending, confirmed or       *)
(* cancelled, never expired                                                *)
C18_NeverExpired ==
    \A b \in DOMAIN bookings :
        /\ bookings[b].status # BookingStatusExpired
        /\ bookings[b].status \in {BookingStatusPending, BookingStatusConfirmed,
                                    BookingStatusCancelled}

C18_Witness ==
    /\ Returned(last, "cancel") /\ last.kind = "OK"
    /\ bookings[last.bid].status = BookingStatusCancelled
    /\ \E b \in DOMAIN bookings : bookings[b].status = BookingStatusConfirmed

(* the first seat of the create request that fails a check is a seat of   *)
(* another hall                                                            *)
WrongHallFailsFirst(call) ==
    \E k \in 1..Len(call.seats) :
        /\ call.seats[k] \in DOMAIN Seats
        /\ ~SeatPasses(call.seats[k], call.sched)
        /\ \A j \in 1..(k - 1) :
              /\ SeatPasses(call.seats[j], call.sched)
              /\ call.seats[j] \notin FindBookedSeatsBySchedule(call.sched)

(* the pay request of call passes validation and comes from the owner of  *)
(* the pending booking it read                                             *)
OwnerPaysPending(call) ==
    /\ call.op = "pay"
    /\ call.amount >= MinAmount
    /\ call.seen # NoBooking
    /\ call.seen.user_id = call.user
    /\ call.seen.status = BookingStatusPending

(* the create request of call is for an existing schedule that is not past *)
CreatesOnOpenSchedule(call) ==
    /\ call.op = "create"
    /\ Len(call.seats) > 0
    /\ call.sched \in DOMAIN Schedules
    /\ Schedules[call.sched].show_date >= call.now - GraceHours

(* C19: a call that fails while no statement of the store fails reaches   *)
(* the client with the kind of its cause: amount mismatch as Validation,   *)
(* seat of another hall and inactive payment method as InvalidState, seat  *)
(* already booked as Conflict, non-owner as Unauthorized, missing booking  *)
(* or schedule as NotFound, and never as Internal                          *)
C19_KindsFollowTaxonomy ==
    [][(/\ Quiet
        /\ last'.kind \notin {"none", "started", "OK"}
        /\ failures' = failures)
       => /\ last'.kind # "Internal"
          /\ (OwnerPaysPending(last') /\ last'.amount # last'.seen.total_price)
                => last'.kind = "Validation"
          /\ (/\ OwnerPaysPending(last')
              /\ last'.amount = last'.seen.total_price
              /\ last'.method \in DOMAIN PaymentMethods)
               => last'.kind = "InvalidState"
          /\ (CreatesOnOpenSchedule(last') /\ WrongHallFailsFirst(last'))
                => last'.kind = "InvalidState"
          /\ (CreatesOnOpenSchedule(last') /\ BookedSeatFailsFirst(last'))
                => last'.kind = "Conflict"
          /\ (/\ last'.op = "pay" /\ last'.amount >= MinAmount
              /\ last'.seen # NoBooking /\ last'.seen.user_id # last'.user)
               => last'.kind = "Unauthorized"
          /\ (/\ last'.op \in {"pay", "cancel"}
              /\ last'.bid \notin DOMAIN bookings
              /\ last'.op = "pay" => last'.amount >= MinAmount)
               => last'.kind = "NotFound"
          /\ (/\ last'.op = "create" /\ Len(last'.seats) > 0
              /\ last'.sched \notin DOMAIN Schedules)
               => last'.kind = "NotFound"]_vars

(* C19, the kinds the code delivers: amount mismatch, inactive payment    *)
(* method and seat of another hall reach the client as Internal            *)
C19_KindsDelivered ==
    [][(/\ Quiet
        /\ last'.kind \notin {"none", "started", "OK"}
        /\ failures' = failures)
       => /\ (OwnerPaysPending(last') /\ last'.amount # last'.seen.total_price)
                => last'.kind = "Internal"
          /\ (/\ OwnerPaysPending(last')
              /\ last'.amount = last'.seen.total_price
              /\ last'.method \in DOMAIN PaymentMethods)
               => last'.kind = "Internal"
          /\ (CreatesOnOpenSchedule(last') /\ WrongHallFailsFirst(last'))
                => last'.kind = "Internal"
          /\ (CreatesOnOpenSchedule(last') /\ BookedSeatFailsFirst(last'))
                => last'.kind = "Conflict"
          /\ (/\ last'.op = "pay" /\ last'.amount >= MinAmount
              /\ last'.seen # NoBooking /\ last'.seen.user_id # last'.user)
               => last'.kind = "Unauthorized"
          /\ (/\ last'.op \in {"pay", "cancel"}
              /\ last'.bid \notin DOMAIN bookings
              /\ last'.op = "pay" => last'.amount >= MinAmount)
               => last'.kind = "NotFound"
          /\ (/\ last'.op = "create" /\ Len(last'.seats) > 0
              /\ last'.sched \notin DOMAIN Schedules)
               => last'.kind = "NotFound"]_vars

(* the seat that the pass of the loop of p is about *)
SeatAt(p) == loc[p].seats[loc[p].i]

(* C20: the booked seats of a CreateBooking request are read once, before *)
(* the first seat is checked; the set a request holds does not change      *)
(* while its seats are checked, and each seat is reported as a conflict    *)
(* exactly when it is in that set, whatever the store holds by then        *)
C20_OneSnapshot ==
    [][\A p \in Procs :
        /\ (pc[p] = "idle" /\ pc'[p] = "cb_check")
              => loc'[p].booked = FindBookedSeatsBySchedule(loc'[p].sched)
        /\ (pc[p] = "cb_check" /\ pc'[p] = "cb_check")
              => loc'[p].booked = loc[p].booked
        /\ (/\ pc[p] = "cb_check"
            /\ loc'[p] # loc[p] \/ pc'[p] # pc[p]
            /\ SeatPasses(SeatAt(p), loc[p].sched))
              => ((pc'[p] = "idle" /\ last'.kind = "Conflict")
                    <=> SeatAt(p) \in loc[p].booked)]_vars

C20_Witness ==
    /\ Returned(last, "create") /\ last.kind = "Conflict"
    /\ last.seats = <<"A2", "A1">>
    /\ FindBookedSeatsBySchedule("s1") = {}
    /\ \E b \in DOMAIN bookings : bookings[b].status = BookingStatusCancelled

(* C21: a payment is inserted only for a booking whose stored status is    *)
(* pending at the moment of the insert, whatever other requests did since  *)
(* the call read the booking                                               *)
C21_PaysOnlyPending ==
    [][\A k \in DOMAIN payments' \ DOMAIN payments :
          /\ payments'[k].status = PaymentStatusCompleted
          /\ payments'[k].booking_id \in DOMAIN bookings
                => bookings[payments'[k].booking_id].status = BookingStatusPending]_vars

(* C22: every booking seat references a booking that exists; when the      *)
(* rollback of CreateBooking has deleted the booking, none of the booking  *)
(* seats inserted for it remain                                            *)
C22_NoOrphanSeats ==
    \A r \in bookingSeats : r.booking_id \in DOMAIN bookings

(* C23: every stored payment has status completed, and its amount is the   *)
(* total price of the booking it references                                *)
C23_PaymentsCompletedAndExact ==
    \A k \in DOMAIN payments :
        /\ payments[k].status = PaymentStatusCompleted
        /\ payments[k].booking_id \in DOMAIN bookings
              => payments[k].amount = bookings[payments[k].booking_id].total_price

C23_Witness ==
    /\ Returned(last, "pay") /\ last.kind = "Internal"
    /\ last.amount = 50000 /\ last.seen.total_price = 100000
    /\ \E k \in DOMAIN payments :
          /\ payments[k].booking_id \in DOMAIN bookings
          /\ payments[k].booking_id # last.bid
          /\ payments[k].amount = 50000
          /\ bookings[payments[k].booking_id].status = BookingStatusCancelled

(* the create request of call passes every check that reads no stored flag *)
(* is_available: its schedule exists and is not past, each of its seats is *)
(* a seat of the schedule's hall and none is booked on the schedule        *)
AcceptedWithoutFlag(call) ==
    /\ call.sched \in DOMAIN Schedules
    /\ Schedules[call.sched].show_date >= call.now - GraceHours
    /\ \A k \in 1..Len(call.seats) :
          /\ SeatPasses(call.seats[k], call.sched)
          /\ call.seats[k] \notin FindBookedSeatsBySchedule(call.sched)

(* C24: no step of CreateBooking, ProcessPayment or CancelBooking changes  *)
(* the stored flag is_available of a seat, and CreateBooking accepts or    *)
(* rejects a request by checks that do not read the flag, so the decision  *)
(* is the same in states that differ only in the flag                      *)
C24_SeatFlagUntouched ==
    [][/\ isAvailable' = isAvailable
       /\ (/\ Quiet
           /\ last'.op = "create"
           /\ Len(last'.seats) > 0
           /\ failures' = failures)
            => (last'.kind = "started" <=> AcceptedWithoutFlag(last'))]_vars

C24_Witness ==
    /\ Returned(last, "create") /\ last.kind = "OK"
    /\ last.seats = <<"A2", "A1">>
    /\ ~isAvailable["A1"] /\ isAvailable["A2"]
    /\ \E b \in DOMAIN bookings : bookings[b].status = BookingStatusConfirmed

(* the entries of an availability response for one hall *)
EntriesOf(call, hallID) ==
    {k \in DOMAIN call.report : call.report[k].hall_id = hallID}

(* C25: in a response of GetSeatAvailability every hall with a schedule at *)
(* the date and time appears once with every seat of the hall, a seat      *)
(* marked available exactly when it is not among the booked seats of that  *)
(* schedule, when no read fails; and no seat held by a pending or          *)
(* confirmed booking is marked available, also when a read fails           *)
C25_AvailabilityExact ==
    [][(last'.op = "avail" /\ last'.kind = "OK")
       => \A j \in 1..Len(Halls) :
            LET hallID == Halls[j]
                targets == TargetSchedules(hallID, last'.date, last'.time)
            IN  targets # {} =>
                /\ failures' = failures
                     => /\ Cardinality(EntriesOf(last', hallID)) = 1
                        /\ \A k \in EntriesOf(last', hallID) :
                             /\ Len(last'.report[k].seats)
                                   = Cardinality({x \in DOMAIN Seats :
                                                     Seats[x].hall_id = hallID})
                             /\ \A x \in DOMAIN Seats :
                                  Seats[x].hall_id = hallID
                                  => \E i \in DOMAIN last'.report[k].seats :
                                       /\ last'.report[k].seats[i].seat_id = x
                                       /\ last'.report[k].seats[i].is_available
                                            <=> \A s \in targets : x \notin HeldSeats(s)
                /\ \A k \in EntriesOf(last', hallID) :
                     \A i \in DOMAIN last'.report[k].seats :
                        (\E s \in targets :
                            last'.report[k].seats[i].seat_id \in HeldSeats(s))
                        => ~last'.report[k].seats[i].is_available]_vars

(* no call of CreateBooking is between its first check and its return *)
NoCreateInProgress ==
    \A p \in Procs : pc[p] \notin {"cb_check", "cb_create", "cb_seats", "cb_rollback"}

(* C26: while no CreateBooking is in progress, every pending or confirmed  *)
(* booking has exactly total_seats booking seats, also after a             *)
(* CreateBooking whose seat insert failed and whose delete failed          *)
C26_SeatCountMatches ==
    NoCreateInProgress
    => \A b \in DOMAIN bookings :
          bookings[b].status \in ActiveStatuses
          => Cardinality({r \in bookingSeats : r.booking_id = b})
                = bookings[b].total_seats

(* the seats a request names, each counted once *)
SeatsNamed(call) == {call.seats[k] : k \in 1..Len(call.seats)}

(* C27: the booking seats of one booking reference pairwise distinct       *)
(* seats, and a booking created from a request counts and charges each     *)
(* seat the request names once, also when the request lists a seat twice   *)
C27_SeatsDistinct ==
    /\ \A r1, r2 \in bookingSeats :
          (r1.booking_id = r2.booking_id /\ r1.seat_id = r2.seat_id) => r1 = r2
    /\ (Returned(last, "create") /\ last.kind = "OK" /\ last.bid \in DOMAIN bookings)
          => /\ bookings[last.bid].total_seats = Cardinality(SeatsNamed(last))
             /\ bookings[last.bid].total_price
                   = Schedules[last.sched].price * Cardinality(SeatsNamed(last))

(* C28: every booking stored as confirmed has a stored completed payment   *)
(* that references it, and the write of confirmed is made by a call whose  *)
(* insert of the payment succeeded                                         *)
C28_ConfirmedHasPayment ==
    [][/\ \A b \in DOMAIN bookings' :
            bookings'[b].status = BookingStatusConfirmed
            => \E k \in DOMAIN payments' :
                  /\ payments'[k].booking_id = b
                  /\ payments'[k].status = PaymentStatusCompleted
       /\ \A b \in DOMAIN bookings \cap DOMAIN bookings' :
            (/\ bookings[b].status # BookingStatusConfirmed
             /\ bookings'[b].status = BookingStatusConfirmed)
            => \E p \in Procs :
                  /\ pc[p] = "pp_update" /\ loc[p].bid = b
                  /\ \E k \in DOMAIN payments :
                        /\ payments[k].booking_id = b
                        /\ payments[k].amount = loc[p].amount]_vars

C28_Witness ==
    /\ Returned(last, "pay") /\ last.kind = "Internal"
    /\ last.seen.status = BookingStatusPending
    /\ last.amount = last.seen.total_price
    /\ CompletedPayments(last.bid) = {}
    /\ last.bid \in DOMAIN bookings
    /\ bookings[last.bid].status = BookingStatusPending
    /\ \E b \in DOMAIN bookings :
          bookings[b].status = BookingStatusConfirmed /\ CompletedPayments(b) # {}

(* C29: each code is accepted by VerifyEmail at most once: of the calls of *)
(* a run, which all present codes for the one code that was sent, at most  *)
(* one succeeds, whether they overlap or follow each other and whether or  *)
(* not marking the code as used failed                                     *)
C29_OtpAcceptedOnce ==
    Cardinality({k \in DOMAIN outcome : outcome[k] = "OK"}) <= 1

(* the header 'Authorization: Bearer <token>' of the token t *)
BearerHeader(t) == <<"Bearer", " ", t>>

(* the sessions of the token t that are neither revoked nor expired *)
LiveSessions(t, now) ==
    {k \in DOMAIN sessions :
        /\ sessions[k].token = t
        /\ ~sessions[k].revoked
        /\ sessions[k].expires_at > now}

(* C30: a request to a protected booking route whose header is 'Bearer'   *)
(* and the token of a session that is neither revoked nor expired passes  *)
(* the middleware and reaches the handler with the user of that session,  *)
(* when the store does not fail; and a request is answered Unauthorized   *)
(* only when its header is not 'Bearer' and the token of such a session   *)
C30_ValidSessionPasses ==
    [][Returned(last', "auth") /\ last'.route \in BookingRoutes =>
         LET live == {t \in TokenRefs :
                         /\ last'.header = BearerHeader(t)
                         /\ LiveSessions(t, last'.now) # {}}
         IN  /\ live # {} /\ failures' = failures =>
                   /\ last'.kind = "passed"
                   /\ \E t \in live : \E k \in LiveSessions(t, last'.now) :
                         last'.user = sessions[k].user_id
             /\ last'.kind = "Unauthorized" => live = {}]_vars

====
